---- MODULE Spec2Model ----
(***************************************************************************)
(* Model of project.py: the recipe manager GestorRecetas (recipe store,    *)
(* shopping list, JSON persistence, step-by-step preparation) and the      *)
(* interactive menu that drives it.                                        *)
(*                                                                         *)
(* A Python dict is modelled as a sequence of records with distinct keys,  *)
(* in insertion order; a Python set as a TLA+ set, its iteration order     *)
(* being a nondeterministic choice among its enumerations.                 *)
(***************************************************************************)
EXTENDS Integers, Sequences, FiniteSets, TLC

VARIABLES
    recetas,        \* GestorRecetas.recetas: dict nombre -> Receta
    lista_compras,  \* GestorRecetas.lista_compras: dict nombre -> ItemCompra
    archivo,        \* content of the file "recetas.json"
    prep,           \* the running preparar_receta coroutine
    shell,          \* the menu: its position, its local variables, and
                    \* history: whether it has changed the store or the list
    ultima,         \* history: the last manager operation, [op, nombre, res, tras]
    antes           \* history: store and list before the last operation

vars == <<recetas, lista_compras, archivo, prep, shell, ultima, antes>>

----------------------------------------------------------------------------
(* Bounds of the model *)

NumNombres == 2
MaxPasos == 3
MaxTiempo == 10

PoolNombres == <<"tortilla", "flan", "gazpacho", "paella">>
PoolPasos == <<"a", "b", "c", "d", "e">>

Nombres == {PoolNombres[i] : i \in 1..NumNombres}
Ingredientes == {"huevo", "leche"}
\* a recipe name that is never added to the store
Desconocida == "sopa"

----------------------------------------------------------------------------
(* Enumerations *)

PENDIENTE == 1
COMPRADO == 2
EstadoCompra == {PENDIENTE, COMPRADO}

\* EstadoCompra member -> its .name
EstadoName(e) == IF e = PENDIENTE THEN "PENDIENTE" ELSE "COMPRADO"
EstadoNames == {EstadoName(e) : e \in EstadoCompra}
\* EstadoCompra[name]: lookup by member name (KeyError when name is unknown)
EstadoPorNombre(n) == CHOOSE e \in EstadoCompra : EstadoName(e) = n

\* CategoriaReceta members, in definition order
CategoriaReceta == <<"DESAYUNO", "ALMUERZO", "CENA", "POSTRE">>
Categorias == {CategoriaReceta[i] : i \in DOMAIN CategoriaReceta}
\* member -> its .value
CategoriaValue(c) ==
    CASE c = "DESAYUNO" -> "Desayuno"
      [] c = "ALMUERZO" -> "Almuerzo"
      [] c = "CENA" -> "Cena"
      [] c = "POSTRE" -> "Postre"
CategoriaValues == {CategoriaValue(c) : c \in Categorias}
\* CategoriaReceta(value): lookup by value (ValueError when value is unknown)
CategoriaPorValor(v) == CHOOSE c \in Categorias : CategoriaValue(c) = v

----------------------------------------------------------------------------
(* Records and dict helpers *)

Receta(n, c, ing, ps, t) ==
    [nombre |-> n, categoria |-> c, ingredientes |-> ing, pasos |-> ps,
     tiempo_preparacion |-> t]

ItemCompra(n) == [nombre |-> n, estado |-> PENDIENTE]

Range(s) == {s[i] : i \in DOMAIN s}

\* the keys of a dict
Claves(d) == {d[i].nombre : i \in DOMAIN d}

\* d[n]
Buscar(d, n) == d[CHOOSE i \in DOMAIN d : d[i].nombre = n]

\* d[r.nombre] = r: an existing key keeps its position, a new key goes last
DictSet(d, r) ==
    IF r.nombre \in Claves(d)
    THEN [i \in DOMAIN d |-> IF d[i].nombre = r.nombre THEN r ELSE d[i]]
    ELSE Append(d, r)

\* del d[n]
DictDel(d, n) == SelectSeq(d, LAMBDA x : x.nombre # n)

\* the orders in which a set can be iterated
Ordenes(S) == {s \in [1..Cardinality(S) -> S] : Range(s) = S}

----------------------------------------------------------------------------
(* The state after GestorRecetas() *)

ArchivoAusente == [tipo |-> "ausente", recetas |-> <<>>, lista_compras |-> <<>>]

\* The frame of preparar_receta; a finished call's frame is dropped when the
\* next call of the manager is made.
\* no preparation started: receta holds the local variable receta (none yet),
\* indice the number of steps printed, salida the steps printed, pausas the
\* lengths of the asyncio.sleep calls made, suspendida whether one is pending
PrepInicial == [estado |-> "NotStarted", receta |-> <<>>, indice |-> 0,
                salida |-> <<>>, pausas |-> <<>>, suspendida |-> FALSE]

UltimaInicial == [op |-> "init", nombre |-> "", res |-> "None", tras |-> FALSE]

\* history of a numeric selection that was acted on: the flow, the line
\* typed, the number of entries selected from, and the number that the
\* listing printed next to the entry acted on
SinSeleccion == [flujo |-> "", entrada |-> "", cuantos |-> 0, mostrado |-> 0]

\* main() not yet at its first statement; the locals of the menu's flows unset.
\* hilos counts the worker threads running _guardar or _cargar.
\* History: mutado, seleccion, entradaCat, the line typed for the category
\* that agregar_receta_interactivo holds, and alIniciar, the store and the
\* list when the running worker was started.
EstadoVacio == [recetas |-> <<>>, lista_compras |-> <<>>]

ShellInicial ==
    [pc |-> "cargar", sigue |-> "", nombre |-> "", categoria |-> "",
     ingredientes |-> {}, pasos |-> <<>>, opcion |-> "", mutado |-> FALSE,
     seleccion |-> SinSeleccion, entradaCat |-> "",
     hilos |-> 0, alIniciar |-> EstadoVacio]

GestorVacio ==
    /\ recetas = <<>>
    /\ lista_compras = <<>>
    /\ prep = PrepInicial
    /\ shell = ShellInicial
    /\ ultima = UltimaInicial
    /\ antes = [recetas |-> <<>>, lista_compras |-> <<>>]

----------------------------------------------------------------------------
(* GestorRecetas: store and shopping list *)

\* union of the ingredients of the recipes of rs
UnionIngredientes(rs) == UNION {rs[i].ingredientes : i \in DOMAIN rs}

ingredientes_faltantes ==
    UnionIngredientes(recetas) \ {lista_compras[i].nombre : i \in DOMAIN lista_compras}

\* variant: the reduce intersects instead of uniting, from set()
IngredientesRestantesInterseccion(rs) ==
    {x \in {} : \A i \in DOMAIN rs : x \in rs[i].ingredientes}

\* the union of the ingredients of the remaining recipes, in eliminar_receta
IngredientesRestantes(rs) == UNION {rs[i].ingredientes : i \in DOMAIN rs}

\* variant: the loop stops after its first turn
ActualizarListaSoloPrimero(lista, orden) ==
    IF orden = <<>> THEN lista
    ELSE IF Head(orden) \notin Claves(lista)
         THEN DictSet(lista, ItemCompra(Head(orden)))
         ELSE lista

\* variant: every ingredient gets a fresh Pending item, listed or not
RECURSIVE ActualizarListaSobrescribe(_, _)
ActualizarListaSobrescribe(lista, orden) ==
    IF orden = <<>> THEN lista
    ELSE ActualizarListaSobrescribe(DictSet(lista, ItemCompra(Head(orden))),
                                    Tail(orden))

\* the loop of agregar_receta over the ingredients, iterated in the order orden
RECURSIVE ActualizarLista(_, _)
ActualizarLista(lista, orden) ==
    IF orden = <<>> THEN lista
    ELSE ActualizarLista(
            IF Head(orden) \notin Claves(lista)
            THEN DictSet(lista, ItemCompra(Head(orden)))
            ELSE lista,
            Tail(orden))

\* variant: only Pending entries are deleted
QuitarNoReferenciadosPendientes(lista, restantes) ==
    SelectSeq(lista, LAMBDA it : it.nombre \in restantes \/ it.estado = COMPRADO)

\* variant: the test of the loop is inverted
QuitarNoReferenciadosInvertido(lista, restantes) ==
    SelectSeq(lista, LAMBDA it : it.nombre \notin restantes)

\* the loop of eliminar_receta over the keys of the shopping list
QuitarNoReferenciados(lista, restantes) ==
    SelectSeq(lista, LAMBDA it : it.nombre \in restantes)

\* the record of a call: tras tells whether the call directly followed a
\* guardar_datos that succeeded
Llamada(op, nombre, res) ==
    [op |-> op, nombre |-> nombre, res |-> res,
     tras |-> (ultima.op = "guardar_datos" /\ ultima.res = "ok")]

EstadoActual == [recetas |-> recetas, lista_compras |-> lista_compras]

\* agregar_receta(receta), its ingredient set iterated in the order orden
AgregarReceta(receta, orden) ==
    /\ prep.estado # "InProgress"
    /\ orden \in Ordenes(receta.ingredientes)
    /\ recetas' = DictSet(recetas, receta)
    /\ lista_compras' = ActualizarLista(lista_compras, orden)
    /\ ultima' = Llamada("agregar_receta", receta.nombre, "None")
    /\ antes' = EstadoActual
    /\ UNCHANGED shell
    /\ prep' = PrepInicial
    /\ UNCHANGED archivo

\* variant: no test of the name; the recipe is dropped if there, the list
\* cleaned, True returned
EliminarRecetaSinComprobar(nombre) ==
    /\ prep.estado # "InProgress"
    /\ recetas' = DictDel(recetas, nombre)
    /\ lista_compras' =
         QuitarNoReferenciados(lista_compras,
                               IngredientesRestantes(DictDel(recetas, nombre)))
    /\ ultima' = Llamada("eliminar_receta", nombre, "True")
    /\ antes' = EstadoActual
    /\ UNCHANGED shell
    /\ prep' = PrepInicial
    /\ UNCHANGED archivo

\* eliminar_receta(nombre)
EliminarReceta(nombre) ==
    /\ prep.estado # "InProgress"
    /\ IF nombre \notin Claves(recetas)
       THEN /\ ultima' = Llamada("eliminar_receta", nombre, "False")
            /\ UNCHANGED <<recetas, lista_compras>>
       ELSE /\ recetas' = DictDel(recetas, nombre)
            /\ lista_compras' =
                 QuitarNoReferenciados(lista_compras,
                                       IngredientesRestantes(DictDel(recetas, nombre)))
            /\ ultima' = Llamada("eliminar_receta", nombre, "True")
    /\ antes' = EstadoActual
    /\ UNCHANGED shell
    /\ prep' = PrepInicial
    /\ UNCHANGED archivo

\* item.estado = EstadoCompra.COMPRADO on the item at position num of the list
MarcarItem(lista, num) == [lista EXCEPT ![num].estado = COMPRADO]

MarcarComprado(num) ==
    /\ prep.estado # "InProgress"
    /\ num \in DOMAIN lista_compras
    /\ lista_compras' = MarcarItem(lista_compras, num)
    /\ ultima' = Llamada("marcar", lista_compras[num].nombre, "None")
    /\ antes' = EstadoActual
    /\ UNCHANGED shell
    /\ prep' = PrepInicial
    /\ UNCHANGED <<recetas, archivo>>

----------------------------------------------------------------------------
(* GestorRecetas: preparation *)

Max(a, b) == IF a >= b THEN a ELSE b

\* variant: an unknown name falls back on the first recipe
RecetaAPrepararOPrimera(rs, nombre) ==
    IF nombre \in Claves(rs) THEN <<Buscar(rs, nombre)>>
    ELSE IF rs # <<>> THEN <<rs[1]>> ELSE <<>>

\* the recipe preparar_receta goes on with: none when nombre is not a key
RecetaAPreparar(rs, nombre) ==
    IF nombre \in Claves(rs) THEN <<Buscar(rs, nombre)>> ELSE <<>>

\* variant: no minimum of one time unit
TiempoPasoSinMinimo(r) == r.tiempo_preparacion \div Len(r.pasos)

\* tiempo_paso
TiempoPaso(r) == Max(1, r.tiempo_preparacion \div Len(r.pasos))

\* preparar_receta(nombre) up to its first step: not found, or the title
PrepararReceta(nombre) ==
    /\ prep.estado # "InProgress"
    /\ LET sel == RecetaAPreparar(recetas, nombre) IN
         IF sel = <<>>
         THEN /\ prep' = PrepInicial
              /\ ultima' = Llamada("preparar_receta", nombre, "False")
         ELSE /\ prep' = [PrepInicial EXCEPT !.estado = "InProgress", !.receta = sel]
              /\ ultima' = Llamada("preparar_receta", nombre, "pendiente")
    /\ antes' = EstadoActual
    /\ UNCHANGED shell
    /\ UNCHANGED <<recetas, lista_compras, archivo>>

\* variant: the loop goes two steps ahead when it can
PrepararPasoSaltaUno ==
    /\ prep.estado = "InProgress"
    /\ ~prep.suspendida
    /\ prep.indice < Len(prep.receta[1].pasos)
    /\ LET k == IF prep.indice + 2 <= Len(prep.receta[1].pasos)
                THEN prep.indice + 2 ELSE prep.indice + 1 IN
         prep' = [prep EXCEPT
                    !.indice = k,
                    !.salida = Append(@, prep.receta[1].pasos[k]),
                    !.pausas = Append(@, TiempoPaso(prep.receta[1])),
                    !.suspendida = TRUE]
    /\ UNCHANGED <<recetas, lista_compras, archivo, shell, ultima, antes>>

\* one turn of the loop: print the step, start the pause
PrepararPaso ==
    /\ prep.estado = "InProgress"
    /\ ~prep.suspendida
    /\ prep.indice < Len(prep.receta[1].pasos)
    /\ prep' = [prep EXCEPT
                  !.indice = @ + 1,
                  !.salida = Append(@, prep.receta[1].pasos[prep.indice + 1]),
                  !.pausas = Append(@, TiempoPaso(prep.receta[1])),
                  !.suspendida = TRUE]
    /\ UNCHANGED <<recetas, lista_compras, archivo, shell, ultima, antes>>

\* asyncio.sleep(tiempo_paso) returns
PausaTermina ==
    /\ prep.estado = "InProgress"
    /\ prep.suspendida
    /\ prep' = [prep EXCEPT !.suspendida = FALSE]
    /\ UNCHANGED <<recetas, lista_compras, archivo, shell, ultima, antes>>

\* the loop is over: success message, return True
PrepararFin ==
    /\ prep.estado = "InProgress"
    /\ ~prep.suspendida
    /\ prep.indice = Len(prep.receta[1].pasos)
    /\ prep' = [prep EXCEPT !.estado = "Done"]
    /\ ultima' = [ultima EXCEPT !.res = "True"]
    /\ UNCHANGED <<recetas, lista_compras, archivo, shell, antes>>

----------------------------------------------------------------------------
(* GestorRecetas: persistence *)

ArchivoMalformado == [tipo |-> "malformado", recetas |-> <<>>, lista_compras |-> <<>>]

\* the JSON object written for one recipe, its ingredient set listed in orden
RecetaJson(r, orden) ==
    [clave |-> r.nombre, nombre |-> r.nombre,
     categoria |-> CategoriaValue(r.categoria),
     ingredientes |-> orden, pasos |-> r.pasos,
     tiempo_preparacion |-> r.tiempo_preparacion]

\* variant: the state is written by value, not by name
ItemJsonValor(it) ==
    [nombre |-> it.nombre, estado |-> IF it.estado = PENDIENTE THEN "1" ELSE "2"]

\* the JSON object written for one shopping item
ItemJson(it) == [nombre |-> it.nombre, estado |-> EstadoName(it.estado)]

\* the orders list(r.ingredientes) can produce, one for each recipe of rs
OrdenesRecetas(rs) ==
    {o \in [DOMAIN rs -> UNION {Ordenes(rs[i].ingredientes) : i \in DOMAIN rs}] :
        \A i \in DOMAIN rs : o[i] \in Ordenes(rs[i].ingredientes)}

\* datos, as _guardar builds and dumps it
Serializar(rs, lista, ords) ==
    [tipo |-> "json",
     recetas |-> [i \in DOMAIN rs |-> RecetaJson(rs[i], ords[i])],
     lista_compras |-> [i \in DOMAIN lista |-> ItemJson(lista[i])]]

\* the keys cargar_datos reads of a recipe object and of an item object
CamposReceta == {"categoria", "ingredientes", "pasos", "tiempo_preparacion"}
CamposItem == {"nombre", "estado"}

\* the first dict comprehension of cargar_datos raises no exception
RecetasCargables(a) ==
    \A i \in DOMAIN a.recetas :
        /\ CamposReceta \subseteq DOMAIN a.recetas[i]
        /\ a.recetas[i].categoria \in CategoriaValues

\* the second dict comprehension of cargar_datos raises no exception
ListaCargable(a) ==
    \A i \in DOMAIN a.lista_compras :
        /\ CamposItem \subseteq DOMAIN a.lista_compras[i]
        /\ a.lista_compras[i].estado \in EstadoNames

\* a dict built from a sequence of records, a repeated key keeping its first
\* position and its last value
RECURSIVE DictDe(_, _)
DictDe(d, s) == IF s = <<>> THEN d ELSE DictDe(DictSet(d, Head(s)), Tail(s))

RecetasCargadas(a) ==
    DictDe(<<>>, [i \in DOMAIN a.recetas |->
        Receta(a.recetas[i].clave,
               CategoriaPorValor(a.recetas[i].categoria),
               Range(a.recetas[i].ingredientes),
               a.recetas[i].pasos,
               a.recetas[i].tiempo_preparacion)])

ListaCargada(a) ==
    DictDe(<<>>, [i \in DOMAIN a.lista_compras |->
        [nombre |-> a.lista_compras[i].nombre,
         estado |-> EstadoPorNombre(a.lista_compras[i].estado)]])

\* what cargar_datos returns or catches: no file, an exception, or success
ResultadoCarga(a) ==
    IF a.tipo = "ausente" THEN "ausente"
    ELSE IF a.tipo = "malformado" \/ ~RecetasCargables(a) \/ ~ListaCargable(a)
         THEN "error"
         ELSE "ok"

\* self.recetas after cargar_datos on a manager whose store was rs
RecetasTrasCarga(a, rs) ==
    IF a.tipo = "json" /\ RecetasCargables(a) THEN RecetasCargadas(a) ELSE rs

\* self.lista_compras after cargar_datos on a manager whose list was lista
ListaTrasCarga(a, lista) ==
    IF a.tipo = "json" /\ RecetasCargables(a) /\ ListaCargable(a)
    THEN ListaCargada(a)
    ELSE lista

\* the file after _guardar: written, left alone when open() fails, or cut
\* short when the write fails
ArchivoTrasGuardar(a, rs, lista, ords, resultado) ==
    CASE resultado = "ok" -> Serializar(rs, lista, ords)
      [] resultado = "open_falla" -> a
      [] resultado = "write_falla" -> ArchivoMalformado

ResultadosGuardar == {"ok", "open_falla", "write_falla"}

\* guardar_datos()
GuardarDatos(ords, resultado) ==
    /\ prep.estado # "InProgress"
    /\ ords \in OrdenesRecetas(recetas)
    /\ archivo' = ArchivoTrasGuardar(archivo, recetas, lista_compras, ords, resultado)
    /\ ultima' = Llamada("guardar_datos", "", IF resultado = "ok" THEN "ok" ELSE "IOError")
    /\ antes' = EstadoActual
    /\ UNCHANGED shell
    /\ prep' = PrepInicial
    /\ UNCHANGED <<recetas, lista_compras>>

\* gestor = GestorRecetas(); await gestor.cargar_datos()
Reiniciar ==
    /\ recetas' = RecetasTrasCarga(archivo, <<>>)
    /\ lista_compras' = ListaTrasCarga(archivo, <<>>)
    /\ prep' = PrepInicial
    /\ ultima' = Llamada("cargar_datos", "", ResultadoCarga(archivo))
    /\ antes' = EstadoActual
    /\ UNCHANGED shell
    /\ UNCHANGED archivo

----------------------------------------------------------------------------
(* Specification of the store and the shopping list *)

RecetasSpec ==
    {Receta(n, "CENA", ing, <<"a">>, 5) : n \in Nombres, ing \in SUBSET Ingredientes}

Init ==
    /\ GestorVacio
    /\ archivo = ArchivoAusente

Next ==
    \/ \E r \in RecetasSpec : \E o \in Ordenes(r.ingredientes) : AgregarReceta(r, o)
    \/ \E n \in Nombres \cup {Desconocida} : EliminarReceta(n)
    \/ \E k \in 1..Cardinality(Ingredientes) : MarcarComprado(k)

Spec == Init /\ [][Next]_vars

----------------------------------------------------------------------------
(* Properties of the store and the shopping list *)

\* C1: immediately after agregar_receta, every ingredient of the recipe just
\* added is a key of the shopping list.
C1_IngredientesEnLista ==
    ultima.op = "agregar_receta" =>
        Buscar(recetas, ultima.nombre).ingredientes \subseteq Claves(lista_compras)

\* an add of a two-ingredient recipe, one ingredient new to the list and one
\* already in it
C1_Witness ==
    /\ ultima.op = "agregar_receta"
    /\ Cardinality(Buscar(recetas, ultima.nombre).ingredientes) = 2
    /\ Cardinality(Claves(antes.lista_compras)) = 1
    /\ Claves(antes.lista_compras) \subseteq Buscar(recetas, ultima.nombre).ingredientes
    /\ Len(lista_compras) = 2

\* C2: after a successful eliminar_receta, the shopping list has no entry
\* outside the union of the ingredients of the remaining recipes, whether the
\* entry was Pending or Purchased before the call.
C2_SinHuerfanos ==
    (ultima.op = "eliminar_receta" /\ ultima.res = "True") =>
        Claves(lista_compras) \subseteq UnionIngredientes(recetas)

\* a successful removal that dropped a Purchased entry and a Pending entry
C2_Witness ==
    /\ ultima.op = "eliminar_receta"
    /\ ultima.res = "True"
    /\ \E i, j \in DOMAIN antes.lista_compras :
          /\ antes.lista_compras[i].estado = COMPRADO
          /\ antes.lista_compras[j].estado = PENDIENTE
          /\ antes.lista_compras[i].nombre \notin Claves(lista_compras)
          /\ antes.lista_compras[j].nombre \notin Claves(lista_compras)

\* C3: eliminar_receta leaves every shopping-list entry whose ingredient is
\* still referenced by a remaining recipe in the list, with the state it had.
C3_ReferenciadosIntactos ==
    ultima.op = "eliminar_receta" =>
        \A i \in DOMAIN antes.lista_compras :
            antes.lista_compras[i].nombre \in UnionIngredientes(recetas) =>
                \E j \in DOMAIN lista_compras :
                    lista_compras[j] = antes.lista_compras[i]

\* a Purchased item referenced by the removed recipe and by a remaining one
C3_Witness ==
    /\ ultima.op = "eliminar_receta"
    /\ ultima.res = "True"
    /\ \E i \in DOMAIN lista_compras :
          /\ lista_compras[i].estado = COMPRADO
          /\ lista_compras[i].nombre \in
                Buscar(antes.recetas, ultima.nombre).ingredientes
          /\ lista_compras[i].nombre \in UnionIngredientes(recetas)
    /\ Len(lista_compras) < Len(antes.lista_compras)

\* C4: after any sequence of agregar_receta and eliminar_receta calls from
\* the empty state, ingredientes_faltantes() is empty.
C4_SinFaltantes == ingredientes_faltantes = {}

\* recipes remain, with ingredients, after a removal that shrank the list
C4_Witness ==
    /\ ultima.op = "eliminar_receta"
    /\ ultima.res = "True"
    /\ UnionIngredientes(recetas) # {}
    /\ Len(lista_compras) < Len(antes.lista_compras)

\* C5: the key set of the shopping list equals the union of the ingredients
\* of the current recipes in every state reached by agregar_receta and
\* eliminar_receta calls (overwriting adds included).
C5_ClavesIgualUnion == Claves(lista_compras) = UnionIngredientes(recetas)

\* C13: agregar_receta never modifies an existing shopping-list entry: the
\* entries of before stay, in place and with their state, and the entries
\* added are the recipe's ingredients that were absent, each Pending.
C13_AgregarNoTocaExistentes ==
    ultima.op = "agregar_receta" =>
        LET n == Len(antes.lista_compras)
            nuevos == Buscar(recetas, ultima.nombre).ingredientes
                        \ Claves(antes.lista_compras)
        IN /\ Len(lista_compras) = n + Cardinality(nuevos)
           /\ SubSeq(lista_compras, 1, n) = antes.lista_compras
           /\ {lista_compras[i] : i \in (n + 1)..Len(lista_compras)}
                = {ItemCompra(x) : x \in nuevos}

\* an add whose recipe names a Purchased item of the list and an absent one
C13_Witness ==
    /\ ultima.op = "agregar_receta"
    /\ Len(antes.lista_compras) = 1
    /\ antes.lista_compras[1].estado = COMPRADO
    /\ antes.lista_compras[1].nombre \in Buscar(recetas, ultima.nombre).ingredientes
    /\ Len(lista_compras) = 2
    /\ lista_compras[2].estado = PENDIENTE

\* C14: eliminar_receta with a name absent from the store returns the
\* failure value and leaves the store and the shopping list as they were.
C14_EliminarAusente ==
    (ultima.op = "eliminar_receta" /\ ultima.nombre \notin Claves(antes.recetas)) =>
        /\ ultima.res = "False"
        /\ EstadoActual = antes

\* a failed removal while the list holds an entry no recipe references
C14_Witness ==
    /\ ultima.op = "eliminar_receta"
    /\ ultima.nombre \notin Claves(antes.recetas)
    /\ ultima.res = "False"
    /\ recetas # <<>>
    /\ ~(Claves(lista_compras) \subseteq UnionIngredientes(recetas))

----------------------------------------------------------------------------
(* Specification of persistence: the manager's operations, saves that may  *)
(* fail, and restarts of the program on whatever file it finds             *)

NombresPersist == {"tortilla", "flan"}

RecetasPersist ==
    {Receta("tortilla", "DESAYUNO", {"huevo"}, <<"a", "b">>, 5),
     Receta("tortilla", "CENA", {"huevo", "leche"}, <<"a">>, 7),
     Receta("flan", "POSTRE", {"huevo", "leche"}, <<"a", "b">>, 5),
     Receta("flan", "ALMUERZO", {}, <<"b", "a">>, 1)}

\* files found at the first start: none, unparsable text, and parsable files
\* with an unknown category, an unknown state name, an item without state
ArchivoJson(rs, lista) == [tipo |-> "json", recetas |-> rs, lista_compras |-> lista]

RecetaJsonBuena ==
    RecetaJson(Receta("flan", "POSTRE", {"huevo", "leche"}, <<"a", "b">>, 5),
               <<"leche", "huevo">>)

ArchivosIniciales ==
    {ArchivoAusente,
     ArchivoMalformado,
     ArchivoJson(<<RecetaJsonBuena>>,
                 <<[nombre |-> "huevo", estado |-> "COMPRADO"],
                   [nombre |-> "leche", estado |-> "PENDIENTE"]>>),
     ArchivoJson(<<RecetaJsonBuena,
                   [RecetaJsonBuena EXCEPT !.clave = "tortilla", !.categoria = "Merienda"]>>,
                 <<[nombre |-> "huevo", estado |-> "PENDIENTE"]>>),
     ArchivoJson(<<RecetaJsonBuena>>,
                 <<[nombre |-> "huevo", estado |-> "PENDIENTE"],
                   [nombre |-> "leche", estado |-> "AGOTADO"]>>),
     ArchivoJson(<<RecetaJsonBuena>>,
                 <<[nombre |-> "huevo", estado |-> "PENDIENTE"],
                   [nombre |-> "leche"]>>)}

InitPersist ==
    /\ GestorVacio
    /\ archivo \in ArchivosIniciales

NextPersist ==
    \/ \E r \in RecetasPersist : \E o \in Ordenes(r.ingredientes) : AgregarReceta(r, o)
    \/ \E n \in NombresPersist : EliminarReceta(n)
    \/ \E k \in 1..Cardinality(Ingredientes) : MarcarComprado(k)
    \/ \E o \in OrdenesRecetas(recetas) : \E res \in ResultadosGuardar : GuardarDatos(o, res)
    \/ Reiniciar

SpecPersist == InitPersist /\ [][NextPersist]_vars

\* C6: guardar_datos followed by cargar_datos on a fresh manager rebuilds the
\* same recipes (name, category, ingredient set, ordered steps, prep time) and
\* the same shopping list entries (names and states).
C6_GuardarCargar ==
    (ultima.op = "cargar_datos" /\ ultima.tras) =>
        /\ ultima.res = "ok"
        /\ recetas = antes.recetas
        /\ lista_compras = antes.lista_compras

\* a reload, right after a save, of two recipes of different categories, one of
\* two ingredients, and of a list holding a Purchased and a Pending item
C6_Witness ==
    /\ ultima.op = "cargar_datos"
    /\ ultima.tras
    /\ Len(recetas) = 2
    /\ recetas[1].categoria # recetas[2].categoria
    /\ \E i \in DOMAIN recetas : Cardinality(recetas[i].ingredientes) = 2
    /\ \E i, j \in DOMAIN lista_compras :
          lista_compras[i].estado = COMPRADO /\ lista_compras[j].estado = PENDIENTE

\* C7: when cargar_datos catches an error, the store and the shopping list
\* are both empty afterwards.
C7_ErrorDejaVacio ==
    (ultima.op = "cargar_datos" /\ ultima.res = "error") =>
        (recetas = <<>> /\ lista_compras = <<>>)

----------------------------------------------------------------------------
(* Specification of the preparation: recipes of every number of steps and  *)
(* prep time are added, and known and unknown names prepared               *)

NombresPrep == {"tortilla"}

RecetasPrep ==
    {Receta(n, "CENA", {"huevo"}, SubSeq(PoolPasos, 1, s), t) :
        n \in NombresPrep, s \in 0..MaxPasos, t \in (-1)..MaxTiempo}

NextPrep ==
    \/ \E r \in RecetasPrep : \E o \in Ordenes(r.ingredientes) : AgregarReceta(r, o)
    \/ \E n \in NombresPrep : EliminarReceta(n)
    \/ \E n \in NombresPrep \cup {Desconocida} : PrepararReceta(n)
    \/ PrepararPaso
    \/ PausaTermina
    \/ PrepararFin

SpecPrep == Init /\ [][NextPrep]_vars

\* the S pauses of a recipe of S steps and prep time T
PausasEsperadas(r) ==
    [i \in 1..Len(r.pasos) |-> Max(1, r.tiempo_preparacion \div Len(r.pasos))]

\* C8: for a recipe with S >= 1 steps and prep time T, preparar_receta emits
\* the S steps in order with one pause of max(1, T div S) after each step,
\* S pauses in all, and then returns success.
C8_PasosYPausas ==
    (prep.receta # <<>> /\ Len(prep.receta[1].pasos) >= 1) =>
        LET r == prep.receta[1] IN
        /\ prep.salida = SubSeq(r.pasos, 1, prep.indice)
        /\ prep.pausas = SubSeq(PausasEsperadas(r), 1, prep.indice)
        /\ prep.suspendida => prep.indice >= 1
        /\ prep.estado = "Done" =>
             /\ prep.indice = Len(r.pasos)
             /\ ~prep.suspendida
             /\ ultima.res = "True"
        /\ ultima.res = "True" => prep.estado = "Done"

\* 3 steps and T = 10: the 3 steps in order and 3 pauses of 3 units
C8_Witness ==
    /\ prep.estado = "Done"
    /\ prep.receta[1].pasos = <<"a", "b", "c">>
    /\ prep.receta[1].tiempo_preparacion = 10
    /\ prep.salida = <<"a", "b", "c">>
    /\ prep.pausas = <<3, 3, 3>>

\* C9: preparar_receta with a name that is not a key of the store returns
\* the failure value at once: no step output, no pause, store and shopping
\* list unchanged.
C9_DesconocidaFalla ==
    (ultima.op = "preparar_receta" /\ ultima.nombre \notin Claves(antes.recetas)) =>
        /\ ultima.res = "False"
        /\ prep.estado = "NotStarted"
        /\ prep.salida = <<>>
        /\ prep.pausas = <<>>
        /\ ~prep.suspendida
        /\ EstadoActual = antes

\* an unknown name prepared while the store holds a recipe with steps
C9_Witness ==
    /\ ultima.op = "preparar_receta"
    /\ ultima.nombre = Desconocida
    /\ ultima.res = "False"
    /\ \E i \in DOMAIN recetas : Len(recetas[i].pasos) >= 2

\* The preparation with its scheduling: the loop of preparar_receta runs on
\* and every asyncio.sleep it awaits returns
SpecPrepJusto ==
    /\ Init
    /\ [][NextPrep]_vars
    /\ WF_vars(PrepararPaso)
    /\ WF_vars(PausaTermina)
    /\ WF_vars(PrepararFin)

\* one transition of a preparation: a new call starts at index 0 with no
\* output; a running one keeps its recipe, goes on by exactly one step, the
\* next one of the recipe, or stays; Done comes only after the last step;
\* store and shopping list stay as they are while it runs
C17_Transicion ==
    /\ (prep.estado # "InProgress" /\ prep'.estado = "InProgress") =>
          /\ prep'.indice = 0
          /\ prep'.salida = <<>>
    /\ (prep.estado # "InProgress" /\ prep' # prep) =>
          prep'.estado \in {"NotStarted", "InProgress"}
    /\ prep.estado = "InProgress" =>
          /\ prep'.estado \in {"InProgress", "Done"}
          /\ prep'.receta = prep.receta
          /\ \/ /\ prep'.indice = prep.indice
                /\ prep'.salida = prep.salida
             \/ /\ prep'.indice = prep.indice + 1
                /\ prep'.indice <= Len(prep.receta[1].pasos)
                /\ prep'.salida = Append(prep.salida, prep.receta[1].pasos[prep'.indice])
                /\ prep'.estado = "InProgress"
          /\ prep'.estado = "Done" => prep.indice = Len(prep.receta[1].pasos)
          /\ recetas' = recetas
          /\ lista_compras' = lista_compras

\* C17: the preparation of a known recipe goes NotStarted, InProgress(1),
\* ..., InProgress(S), Done: the step index grows by one per transition, no
\* step is skipped or repeated, the store and the shopping list are
\* unchanged throughout, and a preparation that has started reaches Done,
\* every pause ending.
C17_MaquinaLineal ==
    /\ [][C17_Transicion]_vars
    /\ (prep.estado = "InProgress") ~> (prep.estado = "Done")

\* a recipe of 3 steps and prep time 1 prepared to the end
C17_Witness ==
    /\ prep.estado = "Done"
    /\ prep.indice = 3
    /\ prep.salida = <<"a", "b", "c">>
    /\ prep.receta[1].tiempo_preparacion = 1
    /\ lista_compras # <<>>

----------------------------------------------------------------------------
(* The interactive menu: main() and the flows it awaits.  Each action is   *)
(* the code run from one input() to the next; shell.pc names the prompt    *)
(* the program waits at, or the save it is running.                        *)

MaxPasosMenu == 2

NombresMenu == {"tortilla", "flan"}

\* int(e): the lines typed at numeric prompts, and their values
EsEntero(e) == e \in {"-1", "0", "1", "2", "3", "4", "5"}

ValorEntero(e) ==
    CASE e = "-1" -> -1
      [] e = "0" -> 0
      [] e = "1" -> 1
      [] e = "2" -> 2
      [] e = "3" -> 3
      [] e = "4" -> 4
      [] e = "5" -> 5

\* the position (from 1) of seq[k] in a Python list of length n, a negative
\* k counting from the end; 0 when seq[k] raises IndexError
IndicePy(n, k) ==
    IF 0 <= k /\ k < n THEN k + 1
    ELSE IF k < 0 /\ -n <= k THEN n + k + 1
    ELSE 0

\* str.lower() on the lines typed at the steps prompt
Lower(e) == IF e = "FIN" THEN "fin" ELSE e

\* the lines typed at each prompt
EntradasMenu == {"1", "2", "3", "4", "5", "6", "7", "x"}
EntradasNombre == NombresMenu \cup {""}
EntradasCategoria == {"0", "1", "5", "x"}
EntradasIngredientes == {<<"huevo">>, <<"leche", "", "huevo">>}
EntradasPaso == {"a", "", "fin", "FIN"}
EntradasTiempo == {"2", "0", "-1", "x"}
EntradasSeleccion == {"-1", "0", "1", "2", "3", "x"}
EntradasGestion == {"1", "2", "3", "x"}

\* the prompts: the positions at which the program reads a line
Prompts ==
    {"menu", "enter", "add_nombre", "add_categoria", "add_ingredientes",
     "add_pasos", "add_tiempo", "del_sel", "prep_sel", "ges_op", "ges_num"}

\* the menu at position p, the locals of the flow just left dropped
Ir(p) ==
    [ShellInicial EXCEPT !.pc = p, !.mutado = shell.mutado,
                         !.hilos = shell.hilos, !.alIniciar = shell.alIniciar]

\* the menu about to await guardar_datos() after a change, to go on at p
IrAGuardar(p) == [Ir("guardar") EXCEPT !.sigue = p, !.mutado = TRUE]

\* main: gestor = GestorRecetas(); cargar_datos() finds the file and hands
\* _cargar to a worker thread, which it awaits
CargarInicia ==
    /\ shell.pc = "cargar"
    /\ archivo.tipo # "ausente"
    /\ shell' = [shell EXCEPT !.pc = "hilo_cargar", !.hilos = @ + 1,
                              !.alIniciar = EstadoActual]
    /\ UNCHANGED <<recetas, lista_compras, archivo, prep, ultima, antes>>

\* main: cargar_datos() returns: there is no file, or the worker is done and
\* the store and the list are built from what it read
ShellCargar ==
    /\ shell.pc = IF archivo.tipo = "ausente" THEN "cargar" ELSE "hilo_cargar"
    /\ recetas' = RecetasTrasCarga(archivo, recetas)
    /\ lista_compras' = ListaTrasCarga(archivo, lista_compras)
    /\ shell' = [Ir("menu") EXCEPT
                  !.hilos = IF shell.pc = "hilo_cargar" THEN @ - 1 ELSE @,
                  !.alIniciar = EstadoVacio]
    /\ UNCHANGED <<archivo, prep, ultima, antes>>

\* options 1 and 5: show, then wait for Enter
MenuVer(e) ==
    /\ shell.pc = "menu"
    /\ e \in {"1", "5"}
    /\ shell' = Ir("enter")
    /\ prep' = PrepInicial
    /\ UNCHANGED <<recetas, lista_compras, archivo, ultima, antes>>

Enter ==
    /\ shell.pc = "enter"
    /\ shell' = Ir("menu")
    /\ UNCHANGED <<recetas, lista_compras, archivo, prep, ultima, antes>>

\* option 2: agregar_receta_interactivo up to its first prompt
MenuAgregar(e) ==
    /\ shell.pc = "menu"
    /\ e = "2"
    /\ shell' = Ir("add_nombre")
    /\ prep' = PrepInicial
    /\ UNCHANGED <<recetas, lista_compras, archivo, ultima, antes>>

\* options 3 and 4: eliminar_receta_interactivo and preparar_receta_interactivo
\* up to their prompt; back to the menu when mostrar_recetas() is False
MenuEliminar(e) ==
    /\ shell.pc = "menu"
    /\ e = "3"
    /\ shell' = Ir(IF recetas = <<>> THEN "menu" ELSE "del_sel")
    /\ prep' = PrepInicial
    /\ UNCHANGED <<recetas, lista_compras, archivo, ultima, antes>>

MenuPreparar(e) ==
    /\ shell.pc = "menu"
    /\ e = "4"
    /\ shell' = Ir(IF recetas = <<>> THEN "menu" ELSE "prep_sel")
    /\ prep' = PrepInicial
    /\ UNCHANGED <<recetas, lista_compras, archivo, ultima, antes>>

\* option 6: gestionar_lista_compras up to its prompt; back to the menu when
\* mostrar_lista_compras() is False
MenuGestionar(e) ==
    /\ shell.pc = "menu"
    /\ e = "6"
    /\ shell' = Ir(IF lista_compras = <<>> THEN "menu" ELSE "ges_op")
    /\ prep' = PrepInicial
    /\ UNCHANGED <<recetas, lista_compras, archivo, ultima, antes>>

\* option 7: the final save, then the loop ends
MenuSalir(e) ==
    /\ shell.pc = "menu"
    /\ e = "7"
    /\ shell' = [Ir("guardar") EXCEPT !.sigue = "terminado"]
    /\ prep' = PrepInicial
    /\ UNCHANGED <<recetas, lista_compras, archivo, ultima, antes>>

\* any other line: error message, sleep, menu again
MenuInvalida(e) ==
    /\ shell.pc = "menu"
    /\ e \notin {"1", "2", "3", "4", "5", "6", "7"}
    /\ shell' = Ir("menu")
    /\ prep' = PrepInicial
    /\ UNCHANGED <<recetas, lista_compras, archivo, ultima, antes>>

\* agregar_receta_interactivo: the name
AddNombre(e) ==
    /\ shell.pc = "add_nombre"
    /\ shell' = IF e = "" THEN Ir("add_nombre")
                ELSE [Ir("add_categoria") EXCEPT !.nombre = e]
    /\ UNCHANGED <<recetas, lista_compras, archivo, prep, ultima, antes>>

\* list(CategoriaReceta)[int(e) - 1], or none on ValueError and IndexError
CategoriaElegida(e) ==
    IF ~EsEntero(e) THEN <<>>
    ELSE LET i == IndicePy(Len(CategoriaReceta), ValorEntero(e) - 1) IN
         IF i = 0 THEN <<>> ELSE <<CategoriaReceta[i]>>

\* agregar_receta_interactivo: the category
AddCategoria(e) ==
    /\ shell.pc = "add_categoria"
    /\ shell' = IF CategoriaElegida(e) = <<>> THEN Ir("add_nombre")
                ELSE [shell EXCEPT !.pc = "add_ingredientes",
                                   !.categoria = CategoriaElegida(e)[1],
                                   !.entradaCat = e]
    /\ UNCHANGED <<recetas, lista_compras, archivo, prep, ultima, antes>>

\* {i.strip() for i in input().split(",") if i.strip()}, linea being the
\* stripped pieces of the line
IngredientesDe(linea) == {x \in Range(linea) : x # ""}

\* agregar_receta_interactivo: the ingredients
AddIngredientes(linea) ==
    /\ shell.pc = "add_ingredientes"
    /\ shell' = [shell EXCEPT !.pc = "add_pasos",
                              !.ingredientes = IngredientesDe(linea)]
    /\ UNCHANGED <<recetas, lista_compras, archivo, prep, ultima, antes>>

\* agregar_receta_interactivo: one line of the steps loop
AddPaso(e) ==
    /\ shell.pc = "add_pasos"
    /\ Lower(e) # "fin" /\ e # "" => Len(shell.pasos) < MaxPasosMenu
    /\ shell' = IF Lower(e) = "fin"
                THEN IF shell.pasos = <<>> THEN Ir("add_nombre")
                     ELSE [shell EXCEPT !.pc = "add_tiempo"]
                ELSE IF e = "" THEN shell
                ELSE [shell EXCEPT !.pasos = Append(@, e)]
    /\ UNCHANGED <<recetas, lista_compras, archivo, prep, ultima, antes>>

\* variant: zero is taken as a time
TiempoValidoConCero(e) == EsEntero(e) /\ ValorEntero(e) >= 0

\* int(e) is a number greater than 0
TiempoValido(e) == EsEntero(e) /\ ValorEntero(e) > 0

\* agregar_receta_interactivo: the time; then agregar_receta(nueva_receta)
AddTiempo(e, orden) ==
    /\ shell.pc = "add_tiempo"
    /\ orden \in Ordenes(shell.ingredientes)
    /\ IF ~TiempoValido(e)
       THEN /\ shell' = Ir("add_nombre")
            /\ UNCHANGED <<recetas, lista_compras>>
       ELSE /\ recetas' = DictSet(recetas,
                            Receta(shell.nombre, shell.categoria, shell.ingredientes,
                                   shell.pasos, ValorEntero(e)))
            /\ lista_compras' = ActualizarLista(lista_compras, orden)
            /\ shell' = [IrAGuardar("menu") EXCEPT !.entradaCat = shell.entradaCat]
    /\ UNCHANGED <<archivo, prep, ultima, antes>>

\* the number mostrar_recetas prints next to the recipe at position i: its
\* rank among the recipes of its category
NumeroMostradoReceta(rs, i) ==
    Cardinality({j \in 1..i : rs[j].categoria = rs[i].categoria})

\* the number mostrar_lista_compras prints next to the item at position i:
\* Pending items first, from 1, then Purchased items
NumeroMostradoItem(lista, i) ==
    IF lista[i].estado = PENDIENTE
    THEN Cardinality({j \in 1..i : lista[j].estado = PENDIENTE})
    ELSE Cardinality({j \in DOMAIN lista : lista[j].estado = PENDIENTE})
         + Cardinality({j \in 1..i : lista[j].estado = COMPRADO})

\* the menu sh with the history of the selection just acted on
ConSeleccion(sh, flujo, e, n, m) ==
    [sh EXCEPT !.seleccion =
        [flujo |-> flujo, entrada |-> e, cuantos |-> n, mostrado |-> m]]

\* the position of list(d.values())[int(e) - 1] in a dict of n entries, or 0
\* on ValueError and IndexError
Seleccion(n, e) ==
    IF ~EsEntero(e) THEN 0 ELSE IndicePy(n, ValorEntero(e) - 1)

\* eliminar_receta_interactivo: the selection; then eliminar_receta
DelSeleccion(e) ==
    /\ shell.pc = "del_sel"
    /\ IF e = "0"
       THEN /\ shell' = Ir("menu")
            /\ UNCHANGED <<recetas, lista_compras>>
       ELSE IF Seleccion(Len(recetas), e) = 0
       THEN /\ shell' = Ir("del_sel")
            /\ UNCHANGED <<recetas, lista_compras>>
       ELSE LET nombre == recetas[Seleccion(Len(recetas), e)].nombre IN
            /\ recetas' = DictDel(recetas, nombre)
            /\ lista_compras' =
                 QuitarNoReferenciados(lista_compras,
                                       IngredientesRestantes(DictDel(recetas, nombre)))
            /\ shell' = ConSeleccion(IrAGuardar("menu"), "eliminar_receta", e,
                                     Len(recetas),
                                     NumeroMostradoReceta(recetas,
                                         Seleccion(Len(recetas), e)))
    /\ UNCHANGED <<archivo, prep, ultima, antes>>

\* preparar_receta_interactivo: the selection; then preparar_receta's title
PrepSeleccion(e) ==
    /\ shell.pc = "prep_sel"
    /\ IF e = "0"
       THEN /\ shell' = Ir("menu")
            /\ UNCHANGED prep
       ELSE IF Seleccion(Len(recetas), e) = 0
       THEN /\ shell' = Ir("prep_sel")
            /\ UNCHANGED prep
       ELSE /\ shell' = ConSeleccion(Ir("preparando"), "preparar_receta", e,
                                     Len(recetas),
                                     NumeroMostradoReceta(recetas,
                                         Seleccion(Len(recetas), e)))
            /\ prep' = [PrepInicial EXCEPT
                          !.estado = "InProgress",
                          !.receta = RecetaAPreparar(recetas,
                                       recetas[Seleccion(Len(recetas), e)].nombre)]
    /\ UNCHANGED <<recetas, lista_compras, archivo, ultima, antes>>

\* preparar_receta returns True to preparar_receta_interactivo, which breaks
ShellPrepFin ==
    /\ shell.pc = "preparando"
    /\ prep.estado = "InProgress"
    /\ ~prep.suspendida
    /\ prep.indice = Len(prep.receta[1].pasos)
    /\ prep' = [prep EXCEPT !.estado = "Done"]
    /\ shell' = Ir("menu")
    /\ UNCHANGED <<recetas, lista_compras, archivo, ultima, antes>>

\* gestionar_lista_compras: mark, delete or go back
GesOpcion(e) ==
    /\ shell.pc = "ges_op"
    /\ shell' = IF e = "3" THEN Ir("menu")
                ELSE IF e \notin {"1", "2"} THEN Ir("ges_op")
                ELSE [Ir("ges_num") EXCEPT !.opcion = e]
    /\ UNCHANGED <<recetas, lista_compras, archivo, prep, ultima, antes>>

\* gestionar_lista_compras: the item number is 0 or no item
GesNumeroNada(e) ==
    /\ shell.pc = "ges_num"
    /\ e = "0" \/ Seleccion(Len(lista_compras), e) = 0
    /\ shell' = Ir("ges_op")
    /\ UNCHANGED <<recetas, lista_compras, archivo, prep, ultima, antes>>

\* variant: the item is marked and the save left out
GesMarcarSinGuardar(e) ==
    /\ shell.pc = "ges_num"
    /\ shell.opcion = "1"
    /\ e # "0" /\ Seleccion(Len(lista_compras), e) # 0
    /\ lista_compras' = MarcarItem(lista_compras, Seleccion(Len(lista_compras), e))
    /\ shell' = [Ir("ges_op") EXCEPT !.mutado = TRUE]
    /\ UNCHANGED <<recetas, archivo, prep, ultima, antes>>

\* gestionar_lista_compras, option 1: item.estado = COMPRADO, then the save
GesMarcar(e) ==
    /\ shell.pc = "ges_num"
    /\ shell.opcion = "1"
    /\ e # "0" /\ Seleccion(Len(lista_compras), e) # 0
    /\ lista_compras' = MarcarItem(lista_compras, Seleccion(Len(lista_compras), e))
    /\ shell' = ConSeleccion(IrAGuardar("ges_top"), "marcar", e,
                             Len(lista_compras),
                             NumeroMostradoItem(lista_compras,
                                 Seleccion(Len(lista_compras), e)))
    /\ UNCHANGED <<recetas, archivo, prep, ultima, antes>>

\* gestionar_lista_compras, option 2: del lista_compras[item.nombre], then
\* the save
GesEliminar(e) ==
    /\ shell.pc = "ges_num"
    /\ shell.opcion = "2"
    /\ e # "0" /\ Seleccion(Len(lista_compras), e) # 0
    /\ lista_compras' =
         DictDel(lista_compras, lista_compras[Seleccion(Len(lista_compras), e)].nombre)
    /\ shell' = ConSeleccion(IrAGuardar("ges_top"), "eliminar_item", e,
                             Len(lista_compras),
                             NumeroMostradoItem(lista_compras,
                                 Seleccion(Len(lista_compras), e)))
    /\ UNCHANGED <<recetas, archivo, prep, ultima, antes>>

\* where the menu goes on after a save: "ges_top" is the top of the loop of
\* gestionar_lista_compras, which leaves when the list is empty
Destino(p) ==
    IF p = "ges_top"
    THEN IF lista_compras = <<>> THEN "menu" ELSE "ges_op"
    ELSE p

\* variant: the worker is started and not awaited
GuardarIniciaSinEsperar ==
    /\ shell.pc = "guardar"
    /\ shell' = [Ir(Destino(shell.sigue)) EXCEPT !.hilos = shell.hilos + 1,
                                                 !.alIniciar = EstadoActual]
    /\ UNCHANGED <<recetas, lista_compras, archivo, prep, ultima, antes>>

\* guardar_datos: _guardar is handed to a worker thread and awaited
GuardarInicia ==
    /\ shell.pc = "guardar"
    /\ shell' = [shell EXCEPT !.pc = "hilo_guardar", !.hilos = @ + 1,
                              !.alIniciar = EstadoActual]
    /\ UNCHANGED <<recetas, lista_compras, archivo, prep, ultima, antes>>

\* the worker runs _guardar; guardar_datos returns, or its IOError ends main
HiloGuardar(ords, resultado) ==
    /\ shell.hilos >= 1
    /\ shell.pc # "hilo_cargar"
    /\ ords \in OrdenesRecetas(recetas)
    /\ archivo' = ArchivoTrasGuardar(archivo, recetas, lista_compras, ords, resultado)
    /\ shell' = IF shell.pc = "hilo_guardar"
                THEN [Ir(IF resultado = "ok" THEN Destino(shell.sigue) ELSE "abortado")
                        EXCEPT !.hilos = @ - 1, !.alIniciar = EstadoVacio]
                ELSE [shell EXCEPT !.hilos = @ - 1]
    /\ UNCHANGED <<recetas, lista_compras, prep, ultima, antes>>

\* KeyboardInterrupt while main waits for a line
Interrumpir ==
    /\ shell.pc \in Prompts
    /\ shell' = Ir("interrumpido")
    /\ UNCHANGED <<recetas, lista_compras, archivo, prep, ultima, antes>>

InitShell ==
    /\ GestorVacio
    /\ archivo \in ArchivosIniciales

NextShell ==
    \/ CargarInicia
    \/ ShellCargar
    \/ \E e \in EntradasMenu :
          \/ MenuVer(e)
          \/ MenuAgregar(e)
          \/ MenuEliminar(e)
          \/ MenuPreparar(e)
          \/ MenuGestionar(e)
          \/ MenuSalir(e)
          \/ MenuInvalida(e)
    \/ Enter
    \/ \E e \in EntradasNombre : AddNombre(e)
    \/ \E e \in EntradasCategoria : AddCategoria(e)
    \/ \E e \in EntradasIngredientes : AddIngredientes(e)
    \/ \E e \in EntradasPaso : AddPaso(e)
    \/ \E e \in EntradasTiempo : \E o \in Ordenes(shell.ingredientes) : AddTiempo(e, o)
    \/ \E e \in EntradasSeleccion : DelSeleccion(e)
    \/ \E e \in EntradasSeleccion : PrepSeleccion(e)
    \/ shell.pc = "preparando" /\ PrepararPaso
    \/ shell.pc = "preparando" /\ PausaTermina
    \/ ShellPrepFin
    \/ \E e \in EntradasGestion : GesOpcion(e)
    \/ \E e \in EntradasSeleccion :
          \/ GesNumeroNada(e)
          \/ GesMarcar(e)
          \/ GesEliminar(e)
    \/ GuardarInicia
    \/ \E o \in OrdenesRecetas(recetas) : \E res \in ResultadosGuardar : HiloGuardar(o, res)
    \/ Interrumpir

SpecShell == InitShell /\ [][NextShell]_vars

\* the file holds the store and the shopping list as they are in memory
ArchivoAlDia ==
    \E ords \in OrdenesRecetas(recetas) :
        archivo = Serializar(recetas, lista_compras, ords)

\* C10: every change the menu makes to the store or the list is saved before
\* the next line is read, and exit saves before the loop ends: with saves
\* succeeding, the file holds the in-memory state at every prompt after a
\* change and at graceful exit.
C10_GuardadoEnCadaPrompt ==
    /\ (shell.pc \in Prompts /\ shell.mutado) => ArchivoAlDia
    /\ shell.pc = "terminado" => ArchivoAlDia

\* back at the list prompt after marking an item purchased, two recipes stored
C10_Witness ==
    /\ shell.pc = "ges_op"
    /\ shell.mutado
    /\ Len(recetas) = 2
    /\ \E i \in DOMAIN lista_compras : lista_compras[i].estado = COMPRADO
    /\ archivo.tipo = "json"
    /\ \E i \in DOMAIN archivo.lista_compras :
          archivo.lista_compras[i].estado = "COMPRADO"

\* C11: in the delete-recipe and manage-shopping-list flows, a numeric
\* selection that is not in 1..N (0, the cancel value, aside), negative
\* numbers included, is rejected: it is never acted on.
C11_FueraDeRangoRechazada ==
    shell.seleccion.flujo \in {"eliminar_receta", "marcar", "eliminar_item"} =>
        ValorEntero(shell.seleccion.entrada) \in 1..shell.seleccion.cuantos

\* the positions at which main() has ended
Finales == {"terminado", "interrumpido", "abortado"}

\* C12: no error ends the loop of main: it ends only by the exit option or by
\* an external interrupt, also when the write of guardar_datos fails.
C12_SoloSalirOInterrumpir ==
    shell.pc \in Finales => shell.pc \in {"terminado", "interrumpido"}

\* C15: the entry acted on for a selected number k in 1..N is the entry that
\* the listing printed with the number k.
C15_NumeroMostradoEsElElegido ==
    (/\ shell.seleccion.flujo # ""
     /\ ValorEntero(shell.seleccion.entrada) \in 1..shell.seleccion.cuantos) =>
        shell.seleccion.mostrado = ValorEntero(shell.seleccion.entrada)

\* C18: a category selection outside 1..4 (0 and negative numbers included)
\* or not numeric is rejected: the flow never goes on, and no recipe is added,
\* with such a line.
C18_CategoriaFueraDeRangoRechazada ==
    shell.entradaCat # "" => shell.entradaCat \in {"1", "2", "3", "4"}

\* C16: at most one save worker runs at any time, and while a save or load
\* worker runs the main flow is suspended awaiting it: the store and the
\* list are as they were when the worker was started.
C16_UnSoloHiloYSinMutacion ==
    /\ shell.hilos <= 1
    /\ shell.hilos = 1 =>
         /\ shell.pc \in {"hilo_guardar", "hilo_cargar"}
         /\ EstadoActual = shell.alIniciar
    /\ shell.pc \in {"hilo_guardar", "hilo_cargar"} => shell.hilos = 1

\* a save worker running after a change, two recipes stored
C16_Witness ==
    /\ shell.hilos = 1
    /\ shell.pc = "hilo_guardar"
    /\ shell.mutado
    /\ Len(recetas) = 2
    /\ lista_compras # <<>>

\* the prompts of agregar_receta_interactivo
PromptsAgregar == {"add_nombre", "add_categoria", "add_ingredientes", "add_pasos", "add_tiempo"}

RecetaBienFormada(r) ==
    /\ r.nombre # ""
    /\ Len(r.pasos) >= 1
    /\ r.tiempo_preparacion \in Nat \ {0}

\* C19: in every state reached through the menu every recipe of the store
\* has a non-empty name, which is its key, at least one step and a positive
\* prep time; a line of the add flow that does not lead to agregar_receta
\* (empty name, no steps, a time that is no number or not positive) leaves
\* store and shopping list as they were.
C19_RecetasBienFormadas ==
    /\ [](\A i \in DOMAIN recetas :
            /\ RecetaBienFormada(recetas[i])
            /\ \A j \in DOMAIN recetas : recetas[j].nombre = recetas[i].nombre => j = i)
    /\ [][(shell.pc \in PromptsAgregar /\ shell'.pc # "guardar") =>
             (recetas' = recetas /\ lista_compras' = lista_compras)]_vars

\* two recipes typed in at the menu, stored with the time typed
C19_Witness ==
    /\ shell.pc = "menu"
    /\ shell.mutado
    /\ Len(recetas) = 2
    /\ \A i \in DOMAIN recetas : recetas[i].tiempo_preparacion = 2

====
